---- MODULE Spec2Model ----
(***************************************************************************)
(* Credit-card default prediction pipeline: main(), DataLoader.load_data,  *)
(* CreditRiskModel and SHAPExplainer, as a sequential state machine.       *)
(*                                                                         *)
(* Names (column names, file paths) are sequences of one-character         *)
(* strings, so that str.lower() and str.endswith() are computed.           *)
(* A matrix or vector is described by the rows it holds: the partition the *)
(* rows come from, the number of original rows per class, the number of    *)
(* synthetic rows per class; a scaled matrix also names the rows the       *)
(* scaler state it was transformed with was computed from.                 *)
(* Calls into pandas, scikit-learn, imbalanced-learn, shap and matplotlib  *)
(* either return a result or raise; which one is a free choice.            *)
(***************************************************************************)
EXTENDS Integers, Sequences, FiniteSets, TLC

\* ------------------------------------------------------------------ bounds
MaxRows == 5
MaxTrain == 207
MaxCats == 2
MaxCols == 3

\* ------------------------------------------------------- program constants
TestSizePct == 20
SmoteThresholdTenths == 300
TopN == 10

\* ------------------------------------------------------------------- names
UpperCase == <<"A","B","C","D","E","F","G","H","I","J","K","L","M",
               "N","O","P","Q","R","S","T","U","V","W","X","Y","Z">>
LowerCase == <<"a","b","c","d","e","f","g","h","i","j","k","l","m",
               "n","o","p","q","r","s","t","u","v","w","x","y","z">>

LowerChar(c) ==
    IF \E i \in 1..26 : UpperCase[i] = c
    THEN LowerCase[CHOOSE i \in 1..26 : UpperCase[i] = c]
    ELSE c

\* str.lower()
Lower(s) == [i \in 1..Len(s) |-> LowerChar(s[i])]

\* str.endswith(suffix)
EndsWith(s, suffix) ==
    /\ Len(s) >= Len(suffix)
    /\ SubSeq(s, Len(s) - Len(suffix) + 1, Len(s)) = suffix

Range(s) == {s[i] : i \in 1..Len(s)}

\* col in data.columns, for an Index of names
Contains(columns, name) == \E i \in 1..Len(columns) : columns[i] = name

\* DATA_PARAMS['target_column'] = 'default payment next month'
TargetColumn ==
    <<"d","e","f","a","u","l","t"," ","p","a","y","m","e","n","t"," ",
      "n","e","x","t"," ","m","o","n","t","h">>

\* DATA_PARAMS['categorical_columns'] = ['sex', 'education', 'marriage']
CategoricalColumns ==
    << <<"s","e","x">>,
       <<"e","d","u","c","a","t","i","o","n">>,
       <<"m","a","r","r","i","a","g","e">> >>

\* the default of --data and the other paths a caller may give
DefaultData ==
    <<"d","e","f","a","u","l","t"," ","o","f"," ","c","r","e","d","i","t"," ",
      "c","a","r","d"," ","c","l","i","e","n","t","s",".","x","l","s">>

Paths ==
    { DefaultData,
      <<"d",".","c","s","v">>,
      <<"D",".","C","S","V">>,
      <<"d",".","x","l","s","x">>,
      <<"d",".","t","x","t">> }

\* header rows a file may hold (the first name is the row-id column)
Headers ==
    { <<<<"I","D">>, <<"S","E","X">>, <<"A","G","E">>,
        <<"d","e","f","a","u","l","t"," ","p","a","y","m","e","n","t"," ",
          "n","e","x","t"," ","m","o","n","t","h">> >>,
      <<<<"I","D">>, <<"A","G","E">>,
        <<"D","e","f","a","u","l","t"," ","P","a","y","m","e","n","t"," ",
          "N","e","x","t"," ","M","o","n","t","h">> >>,
      <<<<"I","D">>, <<"s","e","x">>, <<"M","A","R","R","I","A","G","E">>,
        <<"Y">> >>,
      <<<<"d","e","f","a","u","l","t"," ","p","a","y","m","e","n","t"," ",
          "n","e","x","t"," ","m","o","n","t","h">>, <<"A","G","E">> >> }

\* target names a caller of load_data may pass
Targets == { TargetColumn, <<"Y">>, <<"y">>, <<"Z">> }

\* ------------------------------------------------------------ data values
Classes == {1, 2}            \* index 1: label 0, index 2: label 1

NoRows == [part |-> "none", n |-> <<0, 0>>, syn |-> <<0, 0>>]
NoMatrix == [rows |-> NoRows, cols |-> <<>>, by |-> NoRows]
NoTable == [columns |-> <<>>, n |-> <<0, 0>>, dtype |-> "int64", cats |-> 1]

Total(r) == r.n[1] + r.n[2] + r.syn[1] + r.syn[2]
ClassCount(r, c) == r.n[c] + r.syn[c]

\* the tables a file may hold: a header, the rows per target class, the
\* target column's dtype, the number of categories of a categorical column
RowCounts(max) == {c \in (0..max) \X (0..max) : c[1] + c[2] <= max}

Tables ==
    { [columns |-> h, n |-> c, dtype |-> d, cats |-> k] :
        h \in Headers, c \in RowCounts(MaxRows),
        d \in {"int64", "object"}, k \in 1..MaxCats }

\* test_size in percent: the default, and a large one a caller may pass
TestSizes == {TestSizePct, 100 - TestSizePct}

\* exception classes: SystemExit derives from BaseException only
StageErrors == {"ValueError", "OSError"}
TargetNotFound == "ValueError: Target column not found in the dataset"
TooManyValues == "ValueError: too many values to unpack (expected 4)"

VARIABLES
    entry,      \* the operation the caller invoked
    pc,         \* position in the call chain
    exc,        \* the exception propagating out of the try body, "none" if none
    args,       \* arguments of the call: file_path, target_column, test_size
    engines,    \* parser calls made by load_data, in order, with their outcomes
    loc,        \* load_data's local variables
    self,       \* DataLoader: scaler, feature_names_
    ret,        \* load_data's return value, <<>> before it returns
    stages,     \* the stages of load_data entered so far
    hist,       \* what happened: raw header, split output, scaler fits, failed stage
    run,        \* main(): steps executed, names bound by the unpacking, printed report
    clf,        \* CreditRiskModel: what it was trained and evaluated on
    xp          \* SHAPExplainer: feature_names, first row of shap values, charts

vars == <<entry, pc, exc, args, engines, loc, self, ret, stages, hist, run, clf, xp>>

\* ------------------------------------------------------------ initial state
loc0 ==
    [data |-> NoTable, target_column |-> <<>>, categorical_cols |-> <<>>,
     X |-> NoMatrix, y |-> NoRows, feature_names |-> <<>>,
     X_train |-> NoMatrix, X_test |-> NoMatrix,
     y_train |-> NoRows, y_test |-> NoRows,
     X_train_resampled |-> NoMatrix, y_train_resampled |-> NoRows,
     X_train_scaled |-> NoMatrix, X_test_scaled |-> NoMatrix]

\* DataLoader.__init__
self0 == [scaler |-> [fitted_on |-> NoRows], feature_names_ |-> <<>>]

hist0 ==
    [raw_columns |-> <<>>, split_X_test |-> NoMatrix, split_y_test |-> NoRows,
     fits |-> <<>>, failed_stage |-> "none", failed_step |-> "none"]

run0 == [steps |-> <<>>, bound |-> <<>>, checklist |-> FALSE, report |-> FALSE]

\* CreditRiskModel.__init__
clf0 == [trained_on |-> NoRows, evaluated_on |-> NoRows]

Charts == {"summary", "bar", "first_prediction", "waterfall"}

xp0 ==
    [feature_names |-> <<>>, ncols |-> 0, is_frame |-> FALSE, shap |-> <<>>,
     charts |-> [c \in Charts |-> "none"],
     labels |-> [c \in Charts |-> <<>>]]

\* ------------------------------------------------- control flow of load_data
\* the reader the extension test selects
Reader(file_path) ==
    IF EndsWith(Lower(file_path), <<".","c","s","v">>)
    THEN "read_csv"
    ELSE "read_openpyxl"

\* (mutation of LoadDataNext: the balancing statement is missing)
LoadDataNextSkipBalance(p) ==
    CASE p = "read_csv"           -> "normalize"
      [] p = "read_openpyxl"      -> "normalize"
      [] p = "read_xlrd"          -> "normalize"
      [] p = "normalize"          -> "preprocess_target"
      [] p = "preprocess_target"  -> "preprocess_encode"
      [] p = "preprocess_encode"  -> "train_test_split"
      [] p = "train_test_split"   -> "fit_transform"
      [] p = "balance"            -> "fit_transform"
      [] p = "fit_transform"      -> "transform"
      [] p = "transform"          -> "return"

\* the statement that follows statement p when p completes
LoadDataNext(p) ==
    CASE p = "read_csv"           -> "normalize"
      [] p = "read_openpyxl"      -> "normalize"
      [] p = "read_xlrd"          -> "normalize"
      [] p = "normalize"          -> "preprocess_target"
      [] p = "preprocess_target"  -> "preprocess_encode"
      [] p = "preprocess_encode"  -> "train_test_split"
      [] p = "train_test_split"   -> "balance"
      [] p = "balance"            -> "fit_transform"
      [] p = "fit_transform"      -> "transform"
      [] p = "transform"          -> "return"

\* the only try block of load_data: around the openpyxl read
InnerTry(p) == p = "read_openpyxl"

\* (mutation of OnFailure: a failure of the balancer is swallowed)
OnFailureSwallow(p) ==
    IF InnerTry(p) THEN "read_xlrd"
    ELSE IF p = "balance" THEN "fit_transform" ELSE "raise"

\* (mutation of OnFailure: no fallback to the second engine)
OnFailureNoFallback(p) == "raise"

\* where control goes when statement p raises: the bare except of the inner
\* try runs the xlrd read, anything else leaves load_data
OnFailure(p) == IF InnerTry(p) THEN "read_xlrd" ELSE "raise"

\* the stage of the pipeline a statement belongs to
StageOf(p) ==
    CASE p \in {"read_csv", "read_openpyxl", "read_xlrd", "normalize"} -> "Load"
      [] p = "preprocess_target"  -> "Split"
      [] p = "preprocess_encode"  -> "Encode"
      [] p = "train_test_split"   -> "PartitionTrainTest"
      [] p = "balance"            -> "Balance"
      [] p \in {"fit_transform", "transform"} -> "Scale"

Enter(log, p) ==
    IF Len(log) > 0 /\ log[Len(log)] = StageOf(p) THEN log ELSE Append(log, StageOf(p))

\* (mutation of MainCatches: except ValueError)
MainCatchesValueError(kind) == kind \in {"ValueError", TargetNotFound, TooManyValues}

\* main's handler: except Exception
MainCatches(kind) == kind # "SystemExit"

\* where an exception that leaves a call made by the entry point arrives
Handler(e, kind) == IF e = "main" /\ MainCatches(kind) THEN "except" ELSE "escaped"

\* statement p of load_data raised `kind`
Fail(p, kind) ==
    /\ pc' = IF OnFailure(p) = "raise" THEN Handler(entry, kind) ELSE OnFailure(p)
    /\ exc' = IF OnFailure(p) = "raise" THEN kind ELSE exc
    /\ hist' = [hist EXCEPT !.failed_stage = IF InnerTry(p) THEN @ ELSE StageOf(p)]
    /\ stages' = Enter(stages, p)

\* ------------------------------------------------------------- load_data
\* lines 16-21: the call starts with the extension test
LoadData ==
    /\ pc = "load_data"
    /\ pc' = Reader(args.file_path)
    /\ UNCHANGED <<entry, exc, args, engines, loc, self, ret, stages, hist, run, clf, xp>>

\* one call of a parser: the engine, whether it returned, the table it returned
Attempt(engine, ok, table) == [engine |-> engine, ok |-> ok, table |-> table]

\* pd.read_csv(file_path)
ReadCsv ==
    /\ pc = "read_csv"
    /\ \/ \E t \in Tables :
            /\ loc' = [loc EXCEPT !.data = t]
            /\ engines' = Append(engines, Attempt("csv", TRUE, t))
            /\ hist' = [hist EXCEPT !.raw_columns = t.columns]
            /\ stages' = Enter(stages, pc)
            /\ pc' = LoadDataNext(pc)
            /\ exc' = exc
       \/ /\ \E kind \in StageErrors : Fail(pc, kind)
          /\ engines' = Append(engines, Attempt("csv", FALSE, NoTable))
          /\ loc' = loc
    /\ UNCHANGED <<entry, args, self, ret, run, clf, xp>>

\* pd.read_excel(file_path, engine=..., header=1, index_col=0): the first
\* column becomes the index and is no column of the table
ReadExcel(p, engine) ==
    /\ pc = p
    /\ \/ \E t \in Tables :
            LET read == [t EXCEPT !.columns = Tail(t.columns)]
            IN  /\ loc' = [loc EXCEPT !.data = read]
                /\ engines' = Append(engines, Attempt(engine, TRUE, read))
                /\ hist' = [hist EXCEPT !.raw_columns = read.columns]
                /\ stages' = Enter(stages, pc)
                /\ pc' = LoadDataNext(pc)
                /\ exc' = exc
       \/ /\ \E kind \in StageErrors : Fail(pc, kind)
          /\ engines' = Append(engines, Attempt(engine, FALSE, NoTable))
          /\ loc' = loc
    /\ UNCHANGED <<entry, args, self, ret, run, clf, xp>>

ReadOpenpyxl == ReadExcel("read_openpyxl", "openpyxl")

ReadXlrd == ReadExcel("read_xlrd", "xlrd")

\* data.columns.str.lower()
NormalizeColumns(columns) == [i \in 1..Len(columns) |-> Lower(columns[i])]

\* (mutation of NormalizeTarget: the target name is left as given)
NormalizeTargetKeep(target_column) == target_column

\* target_column.lower()
NormalizeTarget(target_column) == Lower(target_column)

\* lines 29-40: lower-case the header and the target name, check the target
Normalize ==
    /\ pc = "normalize"
    /\ LET columns == NormalizeColumns(loc.data.columns)
           target == NormalizeTarget(args.target_column)
       IN  /\ loc' = [loc EXCEPT !.data.columns = columns, !.target_column = target]
           /\ IF Contains(columns, target)
              THEN /\ pc' = LoadDataNext(pc)
                   /\ stages' = Enter(stages, pc)
                   /\ UNCHANGED <<exc, hist>>
              ELSE Fail(pc, TargetNotFound)
    /\ UNCHANGED <<entry, args, engines, self, ret, run, clf, xp>>

\* ------------------------------------------------------- _preprocess_data
\* astype('category').cat.codes: the code of a label is its rank among the
\* distinct labels present (class index 1 sorts before class index 2)
CatCodes(n) == IF n[1] = 0 THEN <<n[2], 0>> ELSE n

\* lines 64-83: copy, code an object-typed target, mark the categorical
\* columns present, list the feature names
PreprocessTarget ==
    /\ pc = "preprocess_target"
    /\ \/ /\ loc' = [loc EXCEPT
                !.data.n = IF loc.data.dtype = "object" THEN CatCodes(@) ELSE @,
                !.data.dtype = IF @ = "object" THEN "int8" ELSE @,
                !.categorical_cols =
                    SelectSeq(CategoricalColumns,
                              LAMBDA col : Contains(loc.data.columns, col)),
                !.feature_names =
                    SelectSeq(loc.data.columns, LAMBDA col : col # loc.target_column)]
          /\ pc' = LoadDataNext(pc)
          /\ stages' = Enter(stages, pc)
          /\ UNCHANGED <<exc, hist>>
       \/ \E kind \in StageErrors : Fail(pc, kind) /\ loc' = loc
    /\ UNCHANGED <<entry, args, engines, self, ret, run, clf, xp>>

Digits == <<"0","1","2","3","4","5","6","7","8","9">>

\* pd.get_dummies(..., drop_first=True) on one column of k categories 1..k
Dummies(col, k) == [j \in 1..(k - 1) |-> col \o <<"_", Digits[j + 2]>>]

RECURSIVE AllDummies(_, _)
AllDummies(cols, k) ==
    IF cols = <<>> THEN <<>>
    ELSE Dummies(Head(cols), k) \o AllDummies(Tail(cols), k)

\* the columns of X: the target dropped, the categorical columns replaced by
\* their dummies (appended after the columns left alone)
EncodedColumns(columns, target, categorical_cols, k) ==
    LET features == SelectSeq(columns, LAMBDA col : col # target)
    IN  IF categorical_cols # <<>>
        THEN SelectSeq(features, LAMBDA col : ~Contains(categorical_cols, col))
                \o AllDummies(categorical_cols, k)
        ELSE features

\* lines 85-102: encode, take y, store the column order, return
PreprocessEncode ==
    /\ pc = "preprocess_encode"
    /\ \/ LET rows == [part |-> "all", n |-> loc.data.n, syn |-> <<0, 0>>]
              cols == EncodedColumns(loc.data.columns, loc.target_column,
                                     loc.categorical_cols, loc.data.cats)
          IN  /\ loc' = [loc EXCEPT !.X = [rows |-> rows, cols |-> cols, by |-> NoRows],
                                    !.y = rows]
              /\ self' = [self EXCEPT !.feature_names_ = cols]
              /\ pc' = LoadDataNext(pc)
              /\ stages' = Enter(stages, pc)
              /\ UNCHANGED <<exc, hist>>
       \/ \E kind \in StageErrors : Fail(pc, kind) /\ UNCHANGED <<loc, self>>
    /\ UNCHANGED <<entry, args, engines, ret, run, clf, xp>>

\* ------------------------------------------------------- train_test_split
\* n_test = ceil(test_size * n_samples)
TestCount(n, test_size) == (n * test_size + 99) \div 100

\* lines 46-51: a stratified split either raises or returns two non-empty
\* partitions; how many rows of each class go to the test partition is the
\* library's choice
TrainTestSplit ==
    /\ pc = "train_test_split"
    /\ \/ \E t \in RowCounts(Total(loc.y)) :
            /\ t[1] <= loc.y.n[1] /\ t[2] <= loc.y.n[2]
            /\ t[1] + t[2] = TestCount(Total(loc.y), args.test_size)
            /\ t[1] + t[2] >= 1
            /\ Total(loc.y) - (t[1] + t[2]) >= 1
            /\ LET test == [part |-> "test", n |-> t, syn |-> <<0, 0>>]
                   train == [part |-> "train",
                             n |-> <<loc.y.n[1] - t[1], loc.y.n[2] - t[2]>>,
                             syn |-> <<0, 0>>]
               IN  /\ loc' = [loc EXCEPT
                        !.X_train = [rows |-> train, cols |-> loc.X.cols, by |-> NoRows],
                        !.X_test = [rows |-> test, cols |-> loc.X.cols, by |-> NoRows],
                        !.y_train = train,
                        !.y_test = test]
                   /\ hist' = [hist EXCEPT
                        !.split_X_test = [rows |-> test, cols |-> loc.X.cols, by |-> NoRows],
                        !.split_y_test = test]
            /\ pc' = LoadDataNext(pc)
            /\ stages' = Enter(stages, pc)
            /\ exc' = exc
       \/ \E kind \in StageErrors : Fail(pc, kind) /\ loc' = loc
    /\ UNCHANGED <<entry, args, engines, self, ret, run, clf, xp>>

\* ------------------------------------------------- _handle_class_imbalance
\* round half to even of num/den
RoundHalfEven(num, den) ==
    LET q == num \div den
        r == num % den
    IN  IF 2 * r < den THEN q
        ELSE IF 2 * r > den THEN q + 1
        ELSE IF q % 2 = 0 THEN q ELSE q + 1

\* y.value_counts(normalize=True).mul(100).round(1), in tenths of a percent,
\* over the classes that occur in y
ClassDistribution(y) ==
    { RoundHalfEven(1000 * ClassCount(y, c), Total(y)) :
        c \in {k \in Classes : ClassCount(y, k) > 0} }

SetMin(S) == CHOOSE x \in S : \A z \in S : x <= z
SetMax(S) == CHOOSE x \in S : \A z \in S : x >= z

\* class_distribution.min() / 100 < 0.3 (the minimum of no class is NaN,
\* and NaN < 0.3 is False)
NeedsSmote(y) ==
    /\ ClassDistribution(y) # {}
    /\ SetMin(ClassDistribution(y)) < SmoteThresholdTenths

\* SMOTE.fit_resample: every class that occurs is filled with synthetic rows
\* up to the count of the largest class
Smote(r) ==
    LET top == SetMax({ClassCount(r, c) : c \in Classes})
    IN  [r EXCEPT !.syn = [c \in 1..2 |->
            IF ClassCount(r, c) > 0 THEN r.syn[c] + (top - ClassCount(r, c)) ELSE r.syn[c]]]

\* lines 104-119, when SMOTE does not raise
HandleClassImbalance(X, y) ==
    IF NeedsSmote(y)
    THEN <<[X EXCEPT !.rows = Smote(X.rows)], Smote(y)>>
    ELSE <<X, y>>

\* (mutation of AfterBalance: the test partition is balanced as well)
AfterBalanceBoth(l) ==
    LET r == HandleClassImbalance(l.X_train, l.y_train)
        t == HandleClassImbalance(l.X_test, l.y_test)
    IN  [l EXCEPT !.X_train_resampled = r[1], !.y_train_resampled = r[2],
                  !.X_test = t[1], !.y_test = t[2]]

\* line 56: the balancer is given the training partition
AfterBalance(l) ==
    LET r == HandleClassImbalance(l.X_train, l.y_train)
    IN  [l EXCEPT !.X_train_resampled = r[1], !.y_train_resampled = r[2]]

Balance ==
    /\ pc = "balance"
    /\ \/ /\ loc' = AfterBalance(loc)
          /\ pc' = IF entry = "_handle_class_imbalance" THEN "done" ELSE LoadDataNext(pc)
          /\ stages' = Enter(stages, pc)
          /\ UNCHANGED <<exc, hist>>
       \/ /\ NeedsSmote(loc.y_train)
          /\ \E kind \in StageErrors : Fail(pc, kind)
          /\ loc' = loc
    /\ UNCHANGED <<entry, args, engines, self, ret, run, clf, xp>>

\* ------------------------------------------------------------------ scaler
\* StandardScaler.fit_transform: the state is computed from X
fit_transform(scaler, X) ==
    [scaler |-> [fitted_on |-> X.rows],
     out |-> [X EXCEPT !.by = X.rows],
     fit |-> <<X.rows>>]

\* StandardScaler.transform: the state is used as it is
transform(scaler, X) ==
    [scaler |-> scaler,
     out |-> [X EXCEPT !.by = scaler.fitted_on],
     fit |-> <<>>]

\* line 59
ScaleTrain(scaler, X) == fit_transform(scaler, X)

\* (mutation of ScaleTest: fit_transform on the test partition)
ScaleTestRefit(scaler, X) == fit_transform(scaler, X)

\* line 60
ScaleTest(scaler, X) == transform(scaler, X)

FitTransform ==
    /\ pc = "fit_transform"
    /\ \/ LET r == ScaleTrain(self.scaler, loc.X_train_resampled)
          IN  /\ self' = [self EXCEPT !.scaler = r.scaler]
              /\ loc' = [loc EXCEPT !.X_train_scaled = r.out]
              /\ hist' = [hist EXCEPT !.fits = @ \o r.fit]
              /\ pc' = LoadDataNext(pc)
              /\ stages' = Enter(stages, pc)
              /\ exc' = exc
       \/ \E kind \in StageErrors : Fail(pc, kind) /\ UNCHANGED <<loc, self>>
    /\ UNCHANGED <<entry, args, engines, ret, run, clf, xp>>

Transform ==
    /\ pc = "transform"
    /\ \/ LET r == ScaleTest(self.scaler, loc.X_test)
          IN  /\ self' = [self EXCEPT !.scaler = r.scaler]
              /\ loc' = [loc EXCEPT !.X_test_scaled = r.out]
              /\ hist' = [hist EXCEPT !.fits = @ \o r.fit]
              /\ pc' = LoadDataNext(pc)
              /\ stages' = Enter(stages, pc)
              /\ exc' = exc
       \/ \E kind \in StageErrors : Fail(pc, kind) /\ UNCHANGED <<loc, self>>
    /\ UNCHANGED <<entry, args, engines, ret, run, clf, xp>>

\* line 62
ReturnValue(l) ==
    <<l.X_train_scaled, l.X_test_scaled, l.y_train_resampled, l.y_test, l.feature_names>>

Return ==
    /\ pc = "return"
    /\ ret' = ReturnValue(loc)
    /\ pc' = IF entry = "main" THEN "unpack" ELSE "done"
    /\ UNCHANGED <<entry, exc, args, engines, loc, self, stages, hist, run, clf, xp>>

\* ---------------------------------------------------------------- main()
\* the number of names on the left of the assignment at line 39
UnpackTargets == 4

\* a statement of main's try body raised `kind`
FailStep(step, kind) ==
    /\ pc' = Handler(entry, kind)
    /\ exc' = kind
    /\ hist' = [hist EXCEPT !.failed_step = step]

\* main 24-44: parse the command line (argparse exits on a bad one, outside
\* the try), print the banner, build the DataLoader, call load_data
ParseArguments ==
    /\ pc = "parse_arguments"
    /\ \/ \E p \in Paths, size \in TestSizes :
            /\ args' = [file_path |-> p, target_column |-> TargetColumn,
                        test_size |-> size]
            /\ pc' = "load_data"
            /\ exc' = exc
       \/ /\ pc' = "escaped"
          /\ exc' = "SystemExit"
          /\ args' = args
    /\ UNCHANGED <<entry, engines, loc, self, ret, stages, hist, run, clf, xp>>

\* main 39-44: X_train, X_test, y_train, y_test = <the returned tuple>
Unpack ==
    /\ pc = "unpack"
    /\ IF Len(ret) = UnpackTargets
       THEN /\ run' = [run EXCEPT !.bound = ret]
            /\ pc' = "train"
            /\ UNCHANGED <<exc, hist>>
       ELSE /\ FailStep("unpack", TooManyValues)
            /\ run' = run
    /\ UNCHANGED <<entry, args, engines, loc, self, ret, stages, clf, xp>>

\* main 46-49, model.py 17-22: CreditRiskModel().train(X_train, y_train)
Train ==
    /\ pc = "train"
    /\ run' = [run EXCEPT !.steps = Append(@, "train")]
    /\ \/ /\ clf' = [clf EXCEPT !.trained_on = run.bound[1].rows]
          /\ pc' = "evaluate"
          /\ UNCHANGED <<exc, hist>>
       \/ \E kind \in StageErrors : FailStep("train", kind) /\ clf' = clf
    /\ UNCHANGED <<entry, args, engines, loc, self, ret, stages, xp>>

\* main 51-53, model.py 32-55: model.evaluate(X_test, y_test, output_file)
Evaluate ==
    /\ pc = "evaluate"
    /\ run' = [run EXCEPT !.steps = Append(@, "evaluate")]
    /\ \/ /\ clf' = [clf EXCEPT !.evaluated_on = run.bound[2].rows]
          /\ pc' = IF entry = "main" THEN "explainer_init" ELSE "done"
          /\ UNCHANGED <<exc, hist>>
       \/ \E kind \in StageErrors : FailStep("evaluate", kind) /\ clf' = clf
    /\ UNCHANGED <<entry, args, engines, loc, self, ret, stages, xp>>

\* main 75-81: print the error and the checklist; main then returns
Except ==
    /\ pc = "except"
    /\ run' = [run EXCEPT !.checklist = TRUE]
    /\ pc' = "done"
    /\ UNCHANGED <<entry, exc, args, engines, loc, self, ret, stages, hist, clf, xp>>

\* ---------------------------------------------------------- SHAPExplainer
\* attribution values: a negative and a positive one of different size
ShapValuesOf == {-1, 2}

Abs(x) == IF x < 0 THEN -x ELSE x

Min2(a, b) == IF a < b THEN a ELSE b

\* np.argsort(-np.abs(shap_values)): the orders of the indices by descending
\* absolute value; the order among equal values is the sort's choice
ArgSorts(v) ==
    { p \in [1..Len(v) -> 1..Len(v)] :
        /\ \A i, j \in 1..Len(v) : i # j => p[i] # p[j]
        /\ \A i, j \in 1..Len(v) : i < j => Abs(v[p[i]]) >= Abs(v[p[j]]) }

\* idx[:top_n] with top_n = min(10, len(self.feature_names))
TopIdx(order, feature_names) ==
    SubSeq(order, 1, Min2(Min2(TopN, Len(feature_names)), Len(order)))

\* feature_names[i] for every i of idx raises IndexError when an i is past
\* the end of the list
LabelsRaise(idx, feature_names) ==
    \E k \in 1..Len(idx) : idx[k] > Len(feature_names)

\* [feature_names[i] for i in idx][::-1]
Labels(idx, feature_names) ==
    [k \in 1..Len(idx) |-> feature_names[idx[Len(idx) + 1 - k]]]

\* main 55-57, explainer.py 10-14: SHAPExplainer(model, feature_names); a
\* direct caller has set feature_names and the matrix already
ExplainerInit ==
    /\ pc = "explainer_init"
    /\ \/ /\ xp' = IF entry = "main"
                   THEN [xp EXCEPT !.feature_names = self.feature_names_,
                                   !.ncols = Len(run.bound[2].cols)]
                   ELSE xp
          /\ pc' = "shap_values"
          /\ UNCHANGED <<exc, hist>>
       \/ \E kind \in StageErrors : FailStep("explain", kind) /\ xp' = xp
    /\ UNCHANGED <<entry, args, engines, loc, self, ret, stages, run, clf>>

\* explainer.py 16-29: the attribution values of the matrix (of which the
\* charts of the first prediction use the first row)
ShapValues ==
    /\ pc = "shap_values"
    /\ run' = [run EXCEPT !.steps = Append(@, "explain")]
    /\ \/ \E v \in [1..xp.ncols -> ShapValuesOf] :
            /\ xp' = [xp EXCEPT !.shap = v]
            /\ pc' = "summary_plot"
            /\ UNCHANGED <<exc, hist>>
       \/ \E kind \in StageErrors : FailStep("explain", kind) /\ xp' = xp
    /\ UNCHANGED <<entry, args, engines, loc, self, ret, stages, clf>>

\* _create_summary_plot and _create_bar_plot: plt.figure is called before the
\* try, so its failure leaves the function ("raised"); what the try catches
\* becomes a warning
SummaryLikePlot(p, chart, next) ==
    /\ pc = p
    /\ \/ /\ \E outcome \in {"saved", "warned"} :
                xp' = [xp EXCEPT !.charts[chart] = outcome]
          /\ pc' = next
          /\ UNCHANGED <<exc, hist>>
       \/ /\ \E kind \in StageErrors : FailStep("explain", kind)
          /\ xp' = [xp EXCEPT !.charts[chart] = "raised"]
    /\ UNCHANGED <<entry, args, engines, loc, self, ret, stages, run, clf>>

\* explainer.py 46-62
SummaryPlot == SummaryLikePlot("summary_plot", "summary", "bar_plot")

\* explainer.py 64-80
BarPlot == SummaryLikePlot("bar_plot", "bar", "prediction_visualizations")

\* explain() returns; main (lines 60-73) then prints the closing report and
\* returns
AfterExplain == "done"

Reported(r) == [r EXCEPT !.report = (entry = "main")]

\* explainer.py 82-97, 104-107: everything is inside the try; a failure
\* before the two charts skips both with one warning
PredictionVisualizations ==
    /\ pc = "prediction_visualizations"
    /\ \/ /\ pc' = "first_prediction_plot"
          /\ UNCHANGED <<xp, run>>
       \/ /\ pc' = AfterExplain
          /\ xp' = [xp EXCEPT !.charts["first_prediction"] = "skipped",
                              !.charts["waterfall"] = "skipped"]
          /\ run' = Reported(run)
    /\ UNCHANGED <<entry, exc, args, engines, loc, self, ret, stages, hist, clf>>

\* _create_first_prediction_plot and _create_waterfall_plot: the whole body
\* is inside the try
FirstRowPlot(p, chart, next, reads_frame) ==
    /\ pc = p
    /\ \E order \in ArgSorts(xp.shap) :
         LET idx == TopIdx(order, xp.feature_names)
         IN  \/ /\ ~LabelsRaise(idx, xp.feature_names)
                /\ reads_frame => xp.is_frame
                /\ xp' = [xp EXCEPT !.charts[chart] = "saved",
                                    !.labels[chart] = Labels(idx, xp.feature_names)]
             \/ xp' = [xp EXCEPT !.charts[chart] = "warned"]
    /\ pc' = next
    /\ run' = IF next = AfterExplain THEN Reported(run) ELSE run
    /\ UNCHANGED <<entry, exc, args, engines, loc, self, ret, stages, hist, clf>>

\* explainer.py 109-150: the tick labels read X_test_df.iloc, which only a
\* DataFrame has
FirstPredictionPlot ==
    FirstRowPlot("first_prediction_plot", "first_prediction", "waterfall_plot", TRUE)

\* explainer.py 152-189
WaterfallPlot == FirstRowPlot("waterfall_plot", "waterfall", AfterExplain, FALSE)

\* ------------------------------------------------------------ specification
NoArgs == [file_path |-> <<>>, target_column |-> <<>>, test_size |-> TestSizePct]

\* the names a direct caller of the explainer passes: f1, f2, ...
GivenNames(len) == [i \in 1..len |-> <<"f", Digits[i + 1]>>]

Matrix(part, n) ==
    [rows |-> [part |-> part, n |-> n, syn |-> <<0, 0>>], cols |-> <<>>, by |-> NoRows]

\* the program is entered through main(), or a caller uses one of its classes
InitMain ==
    /\ entry = "main"
    /\ pc = "parse_arguments"
    /\ args = NoArgs
    /\ run = run0
    /\ xp = xp0
    /\ loc = loc0

InitLoadData ==
    /\ entry = "load_data"
    /\ pc = "load_data"
    /\ args \in [file_path : Paths, target_column : Targets, test_size : TestSizes]
    /\ run = run0
    /\ xp = xp0
    /\ loc = loc0

InitModel ==
    /\ entry = "train"
    /\ pc = "train"
    /\ args = NoArgs
    /\ \E c \in RowCounts(MaxRows), t \in RowCounts(1) :
         run = [run0 EXCEPT !.bound =
                   <<Matrix("train", c), Matrix("test", t),
                     Matrix("train", c).rows, Matrix("test", t).rows>>]
    /\ xp = xp0
    /\ loc = loc0

InitExplain ==
    /\ entry = "explain"
    /\ pc = "explainer_init"
    /\ args = NoArgs
    /\ run = run0
    /\ \E len \in 0..(MaxCols + 1), n \in 1..MaxCols, frame \in BOOLEAN :
         xp = [xp0 EXCEPT !.feature_names = GivenNames(len),
                          !.ncols = n, !.is_frame = frame]
    /\ loc = loc0

InitBalance ==
    /\ entry = "_handle_class_imbalance"
    /\ pc = "balance"
    /\ args = NoArgs
    /\ run = run0
    /\ xp = xp0
    /\ \E c \in RowCounts(MaxTrain) :
         loc = [loc0 EXCEPT !.X_train = Matrix("train", c),
                            !.y_train = Matrix("train", c).rows]

InitRest ==
    /\ exc = "none"
    /\ engines = <<>>
    /\ self = self0
    /\ ret = <<>>
    /\ stages = <<>>
    /\ hist = hist0
    /\ clf = clf0

Init == (InitMain \/ InitLoadData \/ InitModel \/ InitExplain) /\ InitRest

Next ==
    \/ ParseArguments
    \/ LoadData
    \/ ReadCsv
    \/ ReadOpenpyxl
    \/ ReadXlrd
    \/ Normalize
    \/ PreprocessTarget
    \/ PreprocessEncode
    \/ TrainTestSplit
    \/ Balance
    \/ FitTransform
    \/ Transform
    \/ Return
    \/ Unpack
    \/ Train
    \/ Evaluate
    \/ ExplainerInit
    \/ ShapValues
    \/ SummaryPlot
    \/ BarPlot
    \/ PredictionVisualizations
    \/ FirstPredictionPlot
    \/ WaterfallPlot
    \/ Except

Spec == Init /\ [][Next]_vars

\* the balancer alone, on every pair of class counts
BalanceInit == InitBalance /\ InitRest

BalanceNext == Balance

SpecBalance == BalanceInit /\ [][BalanceNext]_vars

\* ------------------------------------------------------------------ claims
StageOrder == <<"Load", "Split", "Encode", "PartitionTrainTest", "Balance", "Scale">>

IsPrefix(s, t) == Len(s) <= Len(t) /\ s = SubSeq(t, 1, Len(s))

LaterSteps == {"train", "evaluate", "explain"}

\* C1: a run of main() in which load_data returned and no later library call
\* failed trains, then evaluates, then explains before it ends.
C1_MainContinuesPastLoad ==
    (entry = "main" /\ pc = "done" /\ Len(ret) # 0 /\ hist.failed_step \notin LaterSteps)
        => run.steps = <<"train", "evaluate", "explain">>

\* C2: load_data enters the stages in the order Load, Split, Encode,
\* PartitionTrainTest, Balance, Scale, none skipped and none re-entered, and a
\* call that returns has entered all six and returns five elements.
C2_StagesInOrder ==
    /\ IsPrefix(stages, StageOrder)
    /\ Len(ret) # 0 => (stages = StageOrder /\ Len(ret) = 5)

\* a call that returned although Encode and Balance were no-ops
C2_Witness ==
    /\ entry = "load_data"
    /\ pc = "done"
    /\ Len(ret) = 5
    /\ loc.categorical_cols = <<>>
    /\ loc.X_train_resampled = loc.X_train

\* C3: the scaler is fit at most once, only on the balanced training rows,
\* never on the test rows; once the test matrix is scaled the scaler has been
\* fit exactly once and the test matrix was transformed with that state.
C3_ScalerFitOnTrainOnly ==
    /\ Len(hist.fits) <= 1
    /\ \A i \in 1..Len(hist.fits) :
          /\ hist.fits[i].part = "train"
          /\ hist.fits[i] = loc.X_train_resampled.rows
    /\ loc.X_test_scaled # NoMatrix =>
          /\ Len(hist.fits) = 1
          /\ loc.X_test_scaled.by = hist.fits[1]
          /\ loc.X_test_scaled.rows = loc.X_test.rows
    /\ Len(ret) # 0 => (Len(hist.fits) = 1 /\ ret[2].by = ret[1].rows)

\* a call that returned after the balancer added synthetic rows
C3_Witness ==
    /\ Len(ret) = 5
    /\ loc.X_train_resampled.rows.syn # <<0, 0>>
    /\ loc.X_test_scaled.by = loc.X_train_resampled.rows

\* C4: the Balance stage leaves the test partition as the split produced it:
\* the returned y_test is the split's y_test and the scaled test matrix has
\* the rows (and so the row count) of the split's X_test.
C4_TestPartitionUntouched ==
    /\ pc \in {"fit_transform", "transform", "return"} =>
          (loc.X_test = hist.split_X_test /\ loc.y_test = hist.split_y_test)
    /\ Len(ret) # 0 =>
          /\ ret[4] = hist.split_y_test
          /\ Total(ret[2].rows) = Total(hist.split_X_test.rows)
          /\ ret[2].rows = hist.split_X_test.rows

\* a call that returned after balancing changed the training partition
C4_Witness ==
    /\ Len(ret) = 5
    /\ Total(loc.y_train_resampled) > Total(loc.y_train)
    /\ ret[4] = hist.split_y_test
    /\ Total(hist.split_y_test) > 0

\* the smallest count among the classes that occur in y
MinClassCount(y) == SetMin({ClassCount(y, c) : c \in {k \in Classes : ClassCount(y, k) > 0}})

\* C5: the balancer decides on the exact smallest-class proportion p: below
\* 0.30 the result has equal class counts, at 0.30 or more the result is the
\* input unchanged.
C5_ExactThreshold ==
    (entry = "_handle_class_imbalance" /\ pc = "done" /\ Total(loc.y_train) > 0) =>
        IF 10 * MinClassCount(loc.y_train) < 3 * Total(loc.y_train)
        THEN \A c, d \in {k \in Classes : ClassCount(loc.y_train, k) > 0} :
                ClassCount(loc.y_train_resampled, c) = ClassCount(loc.y_train_resampled, d)
        ELSE /\ loc.X_train_resampled = loc.X_train
             /\ loc.y_train_resampled = loc.y_train

Terminal == {"except", "escaped", "done"}

\* C6: a failing stage ends load_data there: no later stage is entered, the
\* exception propagates and nothing is returned; a call either returns the
\* five-element result or raises with no result.
C6_AllOrNothing ==
    /\ Len(ret) \in {0, 5}
    /\ hist.failed_stage # "none" =>
          /\ pc \in Terminal
          /\ exc # "none"
          /\ Len(ret) = 0
          /\ stages[Len(stages)] = hist.failed_stage
    /\ (entry = "load_data" /\ pc = "done") => (Len(ret) = 5 /\ exc = "none")
    /\ (entry = "load_data" /\ pc = "escaped") => (Len(ret) = 0 /\ exc # "none")

\* a call that raised in the middle of the pipeline
C6_Witness ==
    /\ entry = "load_data"
    /\ pc = "escaped"
    /\ hist.failed_stage = "Balance"
    /\ stages = SubSeq(StageOrder, 1, 5)
    /\ Len(ret) = 0

\* the header as read, lower-cased
LoweredHeader == {Lower(hist.raw_columns[i]) : i \in 1..Len(hist.raw_columns)}

\* C7: once the table is read and the check has run, load_data has failed
\* with the target-column error exactly when the lower-cased target name is
\* not among the lower-cased column names, and then no stage after Load ran.
C7_TargetMatchedCaseInsensitively ==
    (loc.data # NoTable /\ pc # "normalize") =>
        IF Lower(args.target_column) \in LoweredHeader
        THEN exc # TargetNotFound
        ELSE /\ exc = TargetNotFound
             /\ stages = <<"Load">>
             /\ Len(ret) = 0

\* the check refused a table without the target column
C7_Witness ==
    /\ exc = TargetNotFound
    /\ loc.data # NoTable
    /\ Lower(args.target_column) \notin LoweredHeader
    /\ stages = <<"Load">>

\* a target name was found in a header that spells it in another case
C7_WitnessFound ==
    /\ pc = "preprocess_target"
    /\ ~Contains(hist.raw_columns, args.target_column)

Recognized(file_path) ==
    \/ EndsWith(Lower(file_path), <<".","c","s","v">>)
    \/ EndsWith(Lower(file_path), <<".","x","l","s">>)
    \/ EndsWith(Lower(file_path), <<".","x","l","s","x">>)

\* C8: for a path whose extension is neither .csv nor a spreadsheet extension
\* the reader fails with UnsupportedFormat and tries no parser.
C8_UnsupportedFormat ==
    (args.file_path # <<>> /\ ~Recognized(args.file_path)) =>
        /\ engines = <<>>
        /\ pc \in Terminal => exc = "UnsupportedFormat"

\* C9: an explainer whose feature_names list is not as long as the row of
\* attribution values ends explain() by raising ColumnMismatch, with no chart
\* saved (runs in which a library call outside the charts' try blocks fails
\* aside).
C9_MismatchRaises ==
    (entry = "explain" /\ pc \in Terminal /\ hist.failed_step = "none"
        /\ Len(xp.shap) > 0 /\ Len(xp.feature_names) # Len(xp.shap)) =>
            /\ pc = "escaped"
            /\ exc = "ColumnMismatch"
            /\ \A c \in Charts : xp.charts[c] # "saved"

\* C10: in a run of main() a failure of a stage (or of the unpacking) is
\* caught by main's handler: it never escapes, no later stage or step runs,
\* and main ends after printing the checklist, without the closing report.
C10_FailuresCaughtAtTop ==
    entry = "main" =>
        /\ (hist.failed_stage # "none" \/ hist.failed_step # "none") =>
              /\ pc \in {"except", "done"}
              /\ exc # "none"
        /\ hist.failed_stage # "none" =>
              (stages[Len(stages)] = hist.failed_stage /\ run.steps = <<>>)
        /\ hist.failed_step \in LaterSteps =>
              run.steps[Len(run.steps)] = hist.failed_step
        /\ (pc = "done" /\ exc # "none") => (run.checklist /\ ~run.report)
        /\ pc = "escaped" => (exc = "SystemExit" /\ stages = <<>> /\ run.steps = <<>>)

\* a run of main() that ended normally after the split raised
C10_Witness ==
    /\ entry = "main"
    /\ pc = "done"
    /\ hist.failed_stage = "PartitionTrainTest"
    /\ exc \in StageErrors
    /\ run.checklist

\* C11: once the attribution values are computed, explain() attempts each of
\* the four charts whatever happens to the others: when it has ended, every
\* chart was either saved or its failure printed as a warning, and explain()
\* returned without an exception.
C11_ChartsIndependent ==
    (Len(xp.shap) > 0 /\ pc \in Terminal) =>
        /\ pc = "done"
        /\ exc = "none"
        /\ \A c \in Charts : xp.charts[c] \in {"saved", "warned"}

\* C12: for a path that does not end in .csv the first parser call is
\* openpyxl; xlrd is called only after openpyxl raised, and then exactly once;
\* the table of the call that returned is the table load_data goes on with;
\* when xlrd raises too the exception leaves load_data and no parser is
\* called again. For a .csv path neither spreadsheet engine is called.
C12_EngineFallback ==
    LET n == Len(engines)
        csv == EndsWith(Lower(args.file_path), <<".","c","s","v">>)
    IN  args.file_path # <<>> =>
          /\ csv => (n <= 1 /\ \A i \in 1..n : engines[i].engine = "csv")
          /\ ~csv =>
                /\ n <= 2
                /\ n >= 1 => engines[1].engine = "openpyxl"
                /\ n = 2 => (engines[2].engine = "xlrd" /\ ~engines[1].ok)
                /\ (n = 1 /\ ~engines[1].ok) => (pc = "read_xlrd" /\ exc = "none")
                /\ (n = 2 /\ ~engines[2].ok) =>
                      /\ pc \in Terminal
                      /\ exc \in StageErrors
                      /\ hist.failed_stage = "Load"
                      /\ Len(ret) = 0
          /\ (n >= 1 /\ engines[n].ok) =>
                /\ hist.raw_columns = engines[n].table.columns
                /\ pc = "normalize" => loc.data = engines[n].table
          /\ (n >= 1 /\ pc \in {"read_csv", "read_openpyxl", "read_xlrd"}) =>
                ~engines[n].ok

\* openpyxl raised, xlrd returned, and load_data goes on with xlrd's table
C12_Witness ==
    /\ Len(engines) = 2
    /\ ~engines[1].ok
    /\ engines[2].engine = "xlrd"
    /\ engines[2].ok
    /\ pc = "normalize"
    /\ loc.data = engines[2].table

====
